---------------------------- MODULE Spec2Model ----------------------------
(***************************************************************************)
(* A model of the word analyzer of src/app.py: the /analyze handler        *)
(* (analyze_word), the phoneme mapping (get_phonetic) and the syllable     *)
(* splitter (split_syllables), with the client of src/api_client.py        *)
(* posting the requests.                                                   *)
(*                                                                         *)
(* Representation.  A word is a TLA+ string; Python's 0-based indices and  *)
(* half-open slices are kept (Sub, Slice, Ch, Item).  A CMU phoneme is a   *)
(* string such as "AH1"; a pronunciation is a sequence of them.  The IPA   *)
(* symbols of the code's tables are not ASCII, so each non-ASCII code      *)
(* point is written {name} inside an ASCII string: "t{esh}" is the code's  *)
(* symbol for CH (t followed by esh) and "{schwa}" its symbol for AH.      *)
(* None of these names holds an uppercase letter or a digit, as none of    *)
(* the code points does.                                                   *)
(***************************************************************************)
EXTENDS Integers, Sequences, FiniteSets, TLC

VARIABLES
  corpus,    \* the CMU pronouncing dictionary as installed: word -> pronunciations
  d,         \* the dictionary the process holds (d = cmudict.dict())
  dic,       \* the hyphenator the process holds (dic = pyphen.Pyphen(...))
  request,   \* the request in flight, or NoRequest
  response,  \* the handler's response to it, or NoResponse
  result     \* what the client's analyze_word returned last, or NotReturned

vars == <<corpus, d, dic, request, response, result>>

(***************************************************************************)
(* Bounds of the model.                                                    *)
(***************************************************************************)
\* The longest generated word and the longest generated pronunciation.
MaxWordLen == 4

MaxPronLen == 2

(***************************************************************************)
(* Python primitives.                                                      *)
(***************************************************************************)
Min(a, b) == IF a < b THEN a ELSE b

Max(a, b) == IF a > b THEN a ELSE b

\* A slice index as Python normalises it against a length.
NormIdx(i, n) == IF i < 0 THEN Max(i + n, 0) ELSE Min(i, n)

\* s[a:b] of a string.
Sub(s, a, b) ==
  LET lo == NormIdx(a, Len(s))
      hi == NormIdx(b, Len(s))
  IN  IF lo >= hi THEN "" ELSE SubSeq(s, lo + 1, hi)

\* s[a:] of a string.
SubFrom(s, a) == Sub(s, a, Len(s))

\* s[a:b] of a list.
Slice(s, a, b) ==
  LET lo == NormIdx(a, Len(s))
      hi == NormIdx(b, Len(s))
  IN  IF lo >= hi THEN <<>> ELSE SubSeq(s, lo + 1, hi)

\* s[a:] of a list.
SliceFrom(s, a) == Slice(s, a, Len(s))

\* s[i] of a string, 0 <= i < len(s).
Ch(s, i) == SubSeq(s, i + 1, i + 1)

\* s[i] of a list, 0 <= i < len(s).
Item(s, i) == s[i + 1]

StartsWith(s, p) == Len(p) <= Len(s) /\ SubSeq(s, 1, Len(p)) = p

EndsWith(s, p) == Len(p) <= Len(s) /\ SubSeq(s, Len(s) - Len(p) + 1, Len(s)) = p

\* str.rfind: the highest 0-based index where p occurs in s, -1 if none.
RFind(s, p) ==
  LET hits == {i \in 0..(Len(s) - Len(p)) : SubSeq(s, i + 1, i + Len(p)) = p}
  IN  IF hits = {} THEN -1 ELSE CHOOSE i \in hits : \A j \in hits : j <= i

\* a // b for b > 0 (floor division, also of a negative a).
FloorDiv(a, b) == a \div b

\* round(a / b) for a >= 0, b > 0: to the nearest integer, a half to the even one.
RoundDiv(a, b) ==
  LET q == a \div b
      r == a % b
  IN  IF 2 * r < b THEN q
      ELSE IF 2 * r > b THEN q + 1
      ELSE IF q % 2 = 0 THEN q ELSE q + 1

RECURSIVE Concat(_)
\* The lists of a list of lists, joined in order.
Concat(ss) == IF ss = <<>> THEN <<>> ELSE Head(ss) \o Concat(Tail(ss))

RECURSIVE Join(_)
\* ''.join(ss) of a list of strings.
Join(ss) == IF ss = <<>> THEN "" ELSE Head(ss) \o Join(Tail(ss))

RECURSIVE SumLen(_)
\* sum(len(part) for part in parts)
SumLen(parts) == IF parts = <<>> THEN 0 ELSE Len(Head(parts)) + SumLen(Tail(parts))

UpperLetters == <<"A", "B", "C", "D", "E", "F", "G", "H", "I", "J", "K", "L", "M",
                  "N", "O", "P", "Q", "R", "S", "T", "U", "V", "W", "X", "Y", "Z">>

LowerLetters == <<"a", "b", "c", "d", "e", "f", "g", "h", "i", "j", "k", "l", "m",
                  "n", "o", "p", "q", "r", "s", "t", "u", "v", "w", "x", "y", "z">>

Digits == {"0", "1", "2", "3", "4", "5", "6", "7", "8", "9"}

Whitespace == {" "}

LowerCh(c) ==
  IF \E k \in 1..26 : UpperLetters[k] = c
  THEN LowerLetters[CHOOSE k \in 1..26 : UpperLetters[k] = c]
  ELSE c

RECURSIVE Lower(_)
\* str.lower()
Lower(s) == IF s = "" THEN "" ELSE LowerCh(Ch(s, 0)) \o Lower(SubFrom(s, 1))

RECURSIVE LStrip(_)
LStrip(s) == IF s # "" /\ Ch(s, 0) \in Whitespace THEN LStrip(SubFrom(s, 1)) ELSE s

RECURSIVE RStrip(_)
RStrip(s) ==
  IF s # "" /\ Ch(s, Len(s) - 1) \in Whitespace THEN RStrip(Sub(s, 0, Len(s) - 1)) ELSE s

\* str.strip()
Strip(s) == RStrip(LStrip(s))

RECURSIVE StripDigits(_)
\* re.sub(r'\d+', '', phoneme)
StripDigits(p) ==
  IF p = "" THEN ""
  ELSE IF Ch(p, 0) \in Digits THEN StripDigits(SubFrom(p, 1))
  ELSE Ch(p, 0) \o StripDigits(SubFrom(p, 1))


(***************************************************************************)
(* The tables of get_phonetic and split_syllables.                         *)
(***************************************************************************)
\* cmu_to_ipa: base CMU symbol -> IPA symbol.
cmu_to_ipa ==
  [HH |-> "h", AH |-> "{schwa}", N |-> "n", T |-> "t", ER |-> "{rhotic}",
   AE |-> "{ash}", K |-> "k", CH |-> "t{esh}", W |-> "w", L |-> "l", IY |-> "i",
   EH |-> "{epsilon}", R |-> "r", IH |-> "{smallcapi}", OW |-> "o",
   AY |-> "a{smallcapi}", EY |-> "e{smallcapi}", OY |-> "{openo}{smallcapi}",
   AW |-> "a{upsilon}", UW |-> "u", NG |-> "{eng}", SH |-> "{esh}",
   TH |-> "{theta}", DH |-> "{eth}", ZH |-> "{ezh}", JH |-> "d{ezh}", Y |-> "j"]

\* cmu_to_ipa.get(base_phoneme, base_phoneme)
IpaOf(base_phoneme) ==
  IF base_phoneme \in DOMAIN cmu_to_ipa THEN cmu_to_ipa[base_phoneme] ELSE base_phoneme

\* The prefixes that mark a CMU phoneme as a vowel.
CmuVowels == {"AA", "AE", "AH", "AO", "AW", "AY", "EH", "ER", "EY", "IH", "IY",
              "OW", "OY", "UH", "UW"}

\* common_suffixes, in the order the dict literal lists them.
common_suffixes ==
  << [pat |-> "ture",  ipa |-> <<"t{esh}", "{rhotic}">>],
     [pat |-> "tion",  ipa |-> <<"{esh}", "{schwa}", "n">>],
     [pat |-> "sion",  ipa |-> <<"{ezh}", "{schwa}", "n">>],
     [pat |-> "cious", ipa |-> <<"{esh}", "{schwa}", "s">>],
     [pat |-> "tious", ipa |-> <<"{esh}", "{schwa}", "s">>],
     [pat |-> "cial",  ipa |-> <<"{esh}", "{schwa}", "l">>],
     [pat |-> "tial",  ipa |-> <<"{esh}", "{schwa}", "l">>],
     [pat |-> "er",    ipa |-> <<"{rhotic}">>],
     [pat |-> "or",    ipa |-> <<"{openo}r">>],
     [pat |-> "ar",    ipa |-> <<"{alpha}r">>],
     [pat |-> "ly",    ipa |-> <<"l", "i">>],
     [pat |-> "ment",  ipa |-> <<"m", "{schwa}", "n", "t">>],
     [pat |-> "ness",  ipa |-> <<"n", "{schwa}", "s">>],
     [pat |-> "ful",   ipa |-> <<"f", "{upsilon}", "l">>],
     [pat |-> "less",  ipa |-> <<"l", "{schwa}", "s">>],
     [pat |-> "able",  ipa |-> <<"{schwa}", "b", "{schwa}", "l">>],
     [pat |-> "ible",  ipa |-> <<"{schwa}", "b", "{schwa}", "l">>],
     [pat |-> "al",    ipa |-> <<"{schwa}", "l">>],
     [pat |-> "ial",   ipa |-> <<"i", "{schwa}", "l">>],
     [pat |-> "ic",    ipa |-> <<"{smallcapi}", "k">>],
     [pat |-> "ical",  ipa |-> <<"{smallcapi}", "k", "{schwa}", "l">>],
     [pat |-> "ive",   ipa |-> <<"{smallcapi}", "v">>],
     [pat |-> "ty",    ipa |-> <<"t", "i">>],
     [pat |-> "ity",   ipa |-> <<"{smallcapi}", "t", "i">>],
     [pat |-> "ary",   ipa |-> <<"{epsilon}", "r", "i">>],
     [pat |-> "ery",   ipa |-> <<"{epsilon}", "r", "i">>],
     [pat |-> "ory",   ipa |-> <<"{openo}", "r", "i">>] >>

\* common_prefixes, in the order the dict literal lists them.
common_prefixes ==
  << [pat |-> "ex",    ipa |-> <<"{smallcapi}", "k", "s">>],
     [pat |-> "pre",   ipa |-> <<"p", "r", "i">>],
     [pat |-> "de",    ipa |-> <<"d", "i">>],
     [pat |-> "re",    ipa |-> <<"r", "i">>],
     [pat |-> "un",    ipa |-> <<"{turnedv}", "n">>],
     [pat |-> "in",    ipa |-> <<"{smallcapi}", "n">>],
     [pat |-> "im",    ipa |-> <<"{smallcapi}", "m">>],
     [pat |-> "il",    ipa |-> <<"{smallcapi}", "l">>],
     [pat |-> "ir",    ipa |-> <<"{smallcapi}", "r">>],
     [pat |-> "dis",   ipa |-> <<"d", "{smallcapi}", "s">>],
     [pat |-> "mis",   ipa |-> <<"m", "{smallcapi}", "s">>],
     [pat |-> "non",   ipa |-> <<"n", "{alpha}", "n">>],
     [pat |-> "over",  ipa |-> <<"o", "v", "{rhotic}">>],
     [pat |-> "under", ipa |-> <<"{turnedv}", "n", "d", "{rhotic}">>],
     [pat |-> "sub",   ipa |-> <<"s", "{turnedv}", "b">>],
     [pat |-> "super", ipa |-> <<"s", "u", "p", "{rhotic}">>],
     [pat |-> "inter", ipa |-> <<"{smallcapi}", "n", "t", "{rhotic}">>],
     [pat |-> "anti",  ipa |-> <<"{ash}", "n", "t", "i">>] >>

vowel_prefixes == {"a", "e", "i", "o", "u"}

\* The override table.
forced_patterns ==
  [hunter |-> <<"hun", "ter">>, paper |-> <<"pa", "per">>, water |-> <<"wa", "ter">>,
   letter |-> <<"let", "ter">>, exchange |-> <<"ex", "change">>,
   extend |-> <<"ex", "tend">>, explain |-> <<"ex", "plain">>,
   export |-> <<"ex", "port">>, exclude |-> <<"ex", "clude">>,
   lecture |-> <<"lec", "ture">>, creature |-> <<"crea", "ture">>,
   furniture |-> <<"fur", "ni", "ture">>, actually |-> <<"ac", "tu", "al", "ly">>,
   nationality |-> <<"na", "tion", "a", "li", "ty">>, agree |-> <<"a", "gree">>]

\* The vowel letters of the letter-level split (vowels = 'aeiouy').
vowels == {"a", "e", "i", "o", "u", "y"}

\* sorted(table, key=len of the pattern, reverse=True): Python's sort is stable, so
\* patterns of one length keep the order of the table.
SortedByLen(table) ==
  LET longest == CHOOSE n \in 0..Len(table) + 5 :
                   /\ \A k \in 1..Len(table) : Len(table[k].pat) <= n
                   /\ \E k \in 1..Len(table) : Len(table[k].pat) = n
      RECURSIVE from(_)
      from(n) == IF n = 0 THEN <<>>
                 ELSE SelectSeq(table, LAMBDA e : Len(e.pat) = n) \o from(n - 1)
  IN  from(longest)

(***************************************************************************)
(* The hyphenator: dic = pyphen.Pyphen(lang='en_US'), used as              *)
(* dic.inserted(s).split('-').  Its patterns are data of the library, not  *)
(* of this program, so the model takes dic to be any one of a family of    *)
(* deterministic hyphenators: hy is the set of places (letters from the    *)
(* left) where it breaks a string.  Like Pyphen with its default           *)
(* left = right = 2, it leaves at least two letters before the first and   *)
(* after the last break.  The result is always a partition of s.           *)
(***************************************************************************)
HyphenLeft == 2

HyphenRight == 2

Hyphenators == SUBSET {2, 3}

Hyphenate(hy, s) ==
  LET cuts == {p \in hy : HyphenLeft <= p /\ p <= Len(s) - HyphenRight}
      RECURSIVE pieces(_, _)
      pieces(from, p) ==
        IF p >= Len(s) THEN <<Sub(s, from, Len(s))>>
        ELSE IF p \in cuts THEN <<Sub(s, from, p)>> \o pieces(p, p + 1)
        ELSE pieces(from, p + 1)
  IN  pieces(0, 1)

(***************************************************************************)
(* get_phonetic.  An optional value is [some |-> FALSE] (None) or          *)
(* [some |-> TRUE, v |-> value].                                           *)
(***************************************************************************)
None == [some |-> FALSE]

Some(x) == [some |-> TRUE, v |-> x]

\* Python's truth of an optional list: None and [] are both false.
Truthy(opt) == opt.some /\ opt.v # <<>>

\* The loop of get_phonetic (lines 79-85), also inlined at lines 446-483.
MapPhonemes(phonemes) == [k \in 1..Len(phonemes) |-> IpaOf(StripDigits(phonemes[k]))]

\* Lines 44-88.
PhoneticOf(dict, word) ==
  IF word \in DOMAIN dict THEN Some(MapPhonemes(Item(dict[word], 0))) ELSE None

get_phonetic(dict, word0) == PhoneticOf(dict, Lower(word0))


(***************************************************************************)
(* split_syllables.  Its outcome is one of                                 *)
(*   [kind |-> "ok", phon |-> groups, syl |-> texts]   a returned pair     *)
(*   [kind |-> "none"]                                 (None, None)        *)
(*   [kind |-> "raise", exc |-> name]                  an exception        *)
(*   [kind |-> "hang"]                                 a loop that stalls  *)
(* and a stage that does not apply yields [kind |-> "pass"]: control falls *)
(* through to the next stage.                                              *)
(***************************************************************************)
Ok(phon, syl) == [kind |-> "ok", phon |-> phon, syl |-> syl]

NoneNone == [kind |-> "none"]

Raise(exc) == [kind |-> "raise", exc |-> exc]

Hang == [kind |-> "hang"]

Pass == [kind |-> "pass"]

\* any(phoneme.startswith(v) for v in [...])
IsVowelPhoneme(phoneme) == \E v \in CmuVowels : StartsWith(phoneme, v)

\* vowel_indices: the 0-based places of the vowel phonemes, ascending.
VowelIndices(cmu_phonemes) ==
  SelectSeq([k \in 1..Len(cmu_phonemes) |-> k - 1],
            LAMBDA i : IsVowelPhoneme(Item(cmu_phonemes, i)))

RECURSIVE ForcedGroups(_, _, _, _)
\* The loop of the override stage (lines 180-184): each registered syllable takes
\* as many phonemes as it has letters, while any are left.
ForcedGroups(pattern, k, remaining, acc) ==
  IF k > Len(pattern) THEN [groups |-> acc, remaining |-> remaining]
  ELSE ForcedGroups(pattern, k + 1,
                    SliceFrom(remaining, Min(Len(pattern[k]), Len(remaining))),
                    Append(acc, Slice(remaining, 0, Min(Len(pattern[k]), Len(remaining)))))

\* Lines 186-190: what is left over goes to the last syllable.
ForcedFinish(pattern, a) ==
  IF a.remaining # <<>>
  THEN IF a.groups = <<>> THEN Raise("IndexError")
       ELSE Ok([a.groups EXCEPT ![Len(a.groups)] = @ \o a.remaining], pattern)
  ELSE Ok(a.groups, pattern)

\* The override stage (lines 173-190).
ForcedBranch(word, phonemes) ==
  ForcedFinish(forced_patterns[word], ForcedGroups(forced_patterns[word], 1, phonemes, <<>>))

\* EvenGroupsOf without lines 237 and 271: the last group is never appended.
EvenGroupsNoLast(phonemes, n, per) ==
  [i \in 1..(n - 1) |-> Slice(phonemes, (i - 1) * per, i * per)]

\* n groups of per phonemes each, the last one taking the rest.
EvenGroupsOf(phonemes, n, per) ==
  [i \in 1..n |-> IF i < n THEN Slice(phonemes, (i - 1) * per, i * per)
                  ELSE SliceFrom(phonemes, (n - 1) * per)]

\* phonemes_per_syllable = len(phonemes) // n, then the groups.
EvenGroups(phonemes, n) == EvenGroupsOf(phonemes, n, FloorDiv(Len(phonemes), n))

\* Lines 224-240: the phonemes shared out evenly over the syllables.
ErSplit(phonemes, result_syllables) ==
  IF Len(result_syllables) = 0 THEN Raise("ZeroDivisionError")
  ELSE Ok(EvenGroups(phonemes, Len(result_syllables)), result_syllables)

\* 'ER' in cmu_phonemes[-2:]
HasER(last2) == \E k \in 1..Len(last2) : last2[k] = "ER"

\* The 'er' stage (lines 211-240).
ErBranch(hy, word, phonemes, cmu_phonemes, vowel_indices) ==
  IF /\ EndsWith(word, "er") /\ Len(word) > 2 /\ Len(vowel_indices) >= 2
     /\ HasER(SliceFrom(cmu_phonemes, -2))
     /\ RFind(word, "er") > 0
  THEN ErSplit(phonemes, Hyphenate(hy, Sub(word, 0, RFind(word, "er"))) \o <<"er">>)
  ELSE Pass

\* Lines 250-274: 'ex' takes the first three phonemes, the rest is shared out evenly.
ExSplit(phonemes, remainder_syllables) ==
  Ok(<<Slice(phonemes, 0, Min(3, Len(phonemes)))>> \o
       (IF remainder_syllables # <<>>
        THEN EvenGroups(SliceFrom(phonemes, Min(3, Len(phonemes))), Len(remainder_syllables))
        ELSE <<>>),
     <<"ex">> \o remainder_syllables)

\* The 'ex' stage (lines 243-274).
ExBranch(hy, word, phonemes) ==
  IF StartsWith(word, "ex") /\ Len(word) > 2
  THEN ExSplit(phonemes, Hyphenate(hy, SubFrom(word, 2)))
  ELSE Pass

\* Lines 296-304: the groups of the prefix syllables, then the group of 'ture'.
TureGroups(phonemes, n, ture_phoneme_index, per) ==
  [i \in 1..n |-> Slice(phonemes, (i - 1) * per,
                        IF i - 1 < n - 1 THEN i * per ELSE ture_phoneme_index)]
    \o <<SliceFrom(phonemes, ture_phoneme_index)>>

\* Lines 287-307: 'ture' takes the last two phonemes.
TureSplit(phonemes, prefix_syllables) ==
  IF Len(prefix_syllables) = 0 THEN Raise("ZeroDivisionError")
  ELSE Ok(TureGroups(phonemes, Len(prefix_syllables), Len(phonemes) - 2,
                     FloorDiv(Len(phonemes) - 2, Len(prefix_syllables))),
          prefix_syllables \o <<"ture">>)

\* The 'ture' stage (lines 277-307).
TureBranch(hy, word, phonemes) ==
  IF EndsWith(word, "ture") /\ Len(word) > 4 /\ RFind(word, "ture") > 0
  THEN TureSplit(phonemes, Hyphenate(hy, Sub(word, 0, RFind(word, "ture"))))
  ELSE Pass

\* The entry at the lowest of the places, or None.
FirstOf(table, hits) ==
  IF hits = {} THEN None ELSE Some(table[CHOOSE k \in hits : \A j \in hits : k <= j])

\* Line 316: the places of the suffixes that end the word and are not all of it.
SuffixHits(table, word) ==
  {k \in 1..Len(table) : EndsWith(word, table[k].pat) /\ Len(word) > Len(table[k].pat)}

\* Lines 315-322: the for loop breaks at its first match.
FindSuffixIn(table, word) == FirstOf(table, SuffixHits(table, word))

\* Suffix detection (lines 309-322): the longest suffix that is not the whole word.
FindSuffix(word) == FindSuffixIn(SortedByLen(common_suffixes), word)

\* Lines 338-346: a single vowel letter followed by a letter that is not in 'aeiou'.
VowelPrefix(remaining_word, phonemes, vowel_indices) ==
  IF /\ \E p \in vowel_prefixes : StartsWith(remaining_word, p)
     /\ Len(remaining_word) > 1
     /\ Ch(remaining_word, 1) \notin {"a", "e", "i", "o", "u"}
  THEN [found |-> TRUE, prefix |-> Ch(remaining_word, 0),
        ipa |-> IF vowel_indices # <<>> /\ Item(vowel_indices, 0) < Len(phonemes)
                THEN <<Item(phonemes, Item(vowel_indices, 0))>>
                ELSE <<>>,
        rest |-> SubFrom(remaining_word, 1)]
  ELSE [found |-> FALSE, prefix |-> "", ipa |-> <<>>, rest |-> remaining_word]

\* Line 330: the places of the prefixes that start the rest and are not all of it.
PrefixHits(table, remaining_word) ==
  {k \in 1..Len(table) : /\ StartsWith(remaining_word, table[k].pat)
                         /\ Len(remaining_word) > Len(table[k].pat)}

\* Lines 329-335: the for loop breaks at its first match.
FindPrefixIn(table, remaining_word) == FirstOf(table, PrefixHits(table, remaining_word))

\* Lines 328-346: the table prefix if one was found, else the vowel prefix.
PrefixOr(hit, remaining_word, phonemes, vowel_indices) ==
  IF hit.some
  THEN [found |-> TRUE, prefix |-> hit.v.pat, ipa |-> hit.v.ipa,
        rest |-> SubFrom(remaining_word, Len(hit.v.pat))]
  ELSE VowelPrefix(remaining_word, phonemes, vowel_indices)

\* Prefix detection (lines 324-346) on what the suffix left: the longest table
\* prefix that is not all of it, else a single vowel letter.
FindPrefix(remaining_word, phonemes, vowel_indices) ==
  PrefixOr(FindPrefixIn(SortedByLen(common_prefixes), remaining_word),
           remaining_word, phonemes, vowel_indices)

RECURSIVE DistributeWalk(_, _, _, _, _)
\* The loop of lines 385-394: each part takes round(its share of the letters times
\* the number of phonemes), at least 1 and at most what is left.
DistributeWalk(remaining_parts, remaining_phonemes, k, current_idx, acc) ==
  IF k > Len(remaining_parts) THEN [groups |-> acc, idx |-> current_idx]
  ELSE DistributeWalk(remaining_parts, remaining_phonemes, k + 1,
         current_idx + Min(Max(1, RoundDiv(Len(remaining_parts[k]) * Len(remaining_phonemes),
                                           SumLen(remaining_parts))),
                           Len(remaining_phonemes) - current_idx),
         Append(acc, Slice(remaining_phonemes, current_idx,
                  current_idx + Min(Max(1, RoundDiv(Len(remaining_parts[k]) * Len(remaining_phonemes),
                                                    SumLen(remaining_parts))),
                                    Len(remaining_phonemes) - current_idx))))

\* Lines 396-398: phonemes left over go to the last part.
DistributeFinish(remaining_phonemes, w) ==
  IF w.idx < Len(remaining_phonemes)
  THEN [w.groups EXCEPT ![Len(w.groups)] = @ \o SliceFrom(remaining_phonemes, w.idx)]
  ELSE w.groups

\* Lines 378-398: the phonemes of the middle, shared out by the length of each part.
Distribute(remaining_parts, remaining_phonemes) ==
  DistributeFinish(remaining_phonemes,
                   DistributeWalk(remaining_parts, remaining_phonemes, 1, 0, <<>>))

\* Lines 362-376: the phonemes between those counted for the prefix and the suffix.
AffixMiddle(phonemes, prefix, suffix) ==
  IF prefix.found /\ suffix.some
  THEN Slice(phonemes, Len(prefix.ipa), Len(phonemes) - Len(suffix.v.ipa))
  ELSE IF prefix.found THEN SliceFrom(phonemes, Len(prefix.ipa))
  ELSE Slice(phonemes, 0, Len(phonemes) - Len(suffix.v.ipa))

\* Lines 350-415: prefix, the parts of the middle, suffix, each with its phonemes;
\* the prefix and the suffix get the phonemes their table lists.
AffixParts(prefix, suffix, remaining_parts, remaining_phonemes) ==
  IF remaining_parts # <<>> /\ remaining_phonemes # <<>>
  THEN IF SumLen(remaining_parts) = 0 THEN Raise("ZeroDivisionError")
       ELSE Ok((IF prefix.found THEN <<prefix.ipa>> ELSE <<>>)
                 \o Distribute(remaining_parts, remaining_phonemes)
                 \o (IF suffix.some THEN <<suffix.v.ipa>> ELSE <<>>),
               (IF prefix.found THEN <<prefix.prefix>> ELSE <<>>)
                 \o remaining_parts
                 \o (IF suffix.some THEN <<suffix.v.pat>> ELSE <<>>))
  ELSE Ok((IF prefix.found THEN <<prefix.ipa>> ELSE <<>>)
            \o <<remaining_phonemes>>
            \o (IF suffix.some THEN <<suffix.v.ipa>> ELSE <<>>),
          (IF prefix.found THEN <<prefix.prefix>> ELSE <<>>)
            \o <<prefix.rest>>
            \o (IF suffix.some THEN <<suffix.v.pat>> ELSE <<>>))

\* Line 349 on: the stage applies when a suffix or a prefix was found.
AffixDecide(hy, phonemes, suffix, prefix) ==
  IF (suffix.some \/ prefix.found) /\ Len(prefix.rest) > 0
  THEN AffixParts(prefix, suffix, Hyphenate(hy, prefix.rest),
                  AffixMiddle(phonemes, prefix, suffix))
  ELSE Pass

\* PrefixAfterSuffix without line 318: the prefix is looked for in the whole word.
PrefixInWholeWord(word, phonemes, vowel_indices, suffix) ==
  FindPrefix(word, phonemes, vowel_indices)

\* Lines 318, 324-346: the prefix is looked for in what the suffix left.
PrefixAfterSuffix(word, phonemes, vowel_indices, suffix) ==
  FindPrefix(IF suffix.some THEN Sub(word, 0, Len(word) - Len(suffix.v.pat)) ELSE word,
             phonemes, vowel_indices)

\* Lines 309-415 once the suffix is known.
AffixAfterSuffix(hy, word, phonemes, vowel_indices, suffix) ==
  AffixDecide(hy, phonemes, suffix,
              PrefixAfterSuffix(word, phonemes, vowel_indices, suffix))

\* The affix stage (lines 309-415).
AffixBranch(hy, word, phonemes, vowel_indices) ==
  AffixAfterSuffix(hy, word, phonemes, vowel_indices, FindSuffix(word))

\* SyllableBoundaries with the odd consonant of a run given to the syllable before.
SyllableBoundariesLeftHeavy(vowel_indices) ==
  [i \in 1..(Len(vowel_indices) - 1) |->
     IF vowel_indices[i + 1] - vowel_indices[i] - 1 >= 2
     THEN vowel_indices[i] + 1 + FloorDiv(vowel_indices[i + 1] - vowel_indices[i], 2)
     ELSE vowel_indices[i] + 1]

\* Lines 421-434: one boundary between each two consecutive vowel phonemes.
SyllableBoundaries(vowel_indices) ==
  [i \in 1..(Len(vowel_indices) - 1) |->
     IF vowel_indices[i + 1] - vowel_indices[i] - 1 >= 2
     THEN vowel_indices[i] + 1 + FloorDiv(vowel_indices[i + 1] - vowel_indices[i] - 1, 2)
     ELSE vowel_indices[i] + 1]

\* CmuSyllables without line 442: what follows the last boundary is left out.
CmuSyllablesNoTail(cmu_phonemes, syllable_boundaries) ==
  [k \in 1..Len(syllable_boundaries) |->
     Slice(cmu_phonemes, IF k = 1 THEN 0 ELSE syllable_boundaries[k - 1],
           syllable_boundaries[k])]

\* Lines 436-442: the CMU phonemes cut at the boundaries.
CmuSyllables(cmu_phonemes, syllable_boundaries) ==
  [k \in 1..(Len(syllable_boundaries) + 1) |->
     IF k <= Len(syllable_boundaries)
     THEN Slice(cmu_phonemes, IF k = 1 THEN 0 ELSE syllable_boundaries[k - 1],
                syllable_boundaries[k])
     ELSE SliceFrom(cmu_phonemes, IF k = 1 THEN 0 ELSE syllable_boundaries[k - 1])]

\* Lines 444-483: each CMU syllable mapped to IPA.
MapSyllables(cmu_syllables) ==
  [k \in 1..Len(cmu_syllables) |-> MapPhonemes(cmu_syllables[k])]

\* Lines 418-483: syllable_phonemes, the mapped phonemes grouped by vowel nucleus.
SyllablePhonemes(cmu_phonemes, vowel_indices) ==
  MapSyllables(CmuSyllables(cmu_phonemes, SyllableBoundaries(vowel_indices)))

\* The lowest of a set of indices, other if there is none.
LowestOr(hits, other) ==
  IF hits = {} THEN other ELSE CHOOSE j \in hits : \A h \in hits : j <= h

\* The first index in from..len(word)-1 whose letter is (want = TRUE) or is not
\* (want = FALSE) a vowel letter, and where the scan stops if there is none: the
\* scanning whiles of lines 524, 546, 556 and 606.
ScanTo(word, from, want) ==
  LowestOr({j \in from..(Len(word) - 1) : (Ch(word, j) \in vowels) = want},
           Max(from, Len(word)))

\* The outcome of the letter-structure loop: its syllables, or a stalled loop.
Split(syllables) == [hang |-> FALSE, syl |-> syllables]

Stalled == [hang |-> TRUE, syl |-> <<>>]

\* Lines 505-515: a suffix of the table ends word[i:] and is not the whole word.
SuffixAt(word, i) ==
  \E k \in 1..Len(common_suffixes) :
    EndsWith(SubFrom(word, i), common_suffixes[k].pat)
      /\ i + Len(common_suffixes[k].pat) < Len(word)

RECURSIVE StructureLoop(_, _, _)

\* Lines 521-542: word[i] is a vowel letter.
AtVowel(word, i, syllables, next_vowel_pos) ==
  IF next_vowel_pos >= Len(word) THEN Split(Append(syllables, SubFrom(word, i)))
  ELSE IF next_vowel_pos - i - 1 > 1
  THEN IF i + 1 + FloorDiv(next_vowel_pos - i - 1, 2) <= i THEN Stalled
       ELSE StructureLoop(word, i + 1 + FloorDiv(next_vowel_pos - i - 1, 2),
              Append(syllables, Sub(word, i, i + 1 + FloorDiv(next_vowel_pos - i - 1, 2))))
  ELSE StructureLoop(word, i + 2, Append(syllables, Sub(word, i, i + 2)))

\* Lines 549-566: word[i] is a consonant letter and a vowel letter follows.
AtConsonantRun(word, i, syllables, next_consonant_pos) ==
  IF next_consonant_pos >= Len(word) THEN Split(Append(syllables, SubFrom(word, i)))
  ELSE IF next_consonant_pos <= i THEN Stalled
  ELSE StructureLoop(word, next_consonant_pos,
                     Append(syllables, Sub(word, i, next_consonant_pos)))

\* Lines 543-566: word[i] is a consonant letter.
AtConsonant(word, i, syllables, vowel_pos) ==
  IF vowel_pos >= Len(word) THEN Split(Append(syllables, SubFrom(word, i)))
  ELSE AtConsonantRun(word, i, syllables, ScanTo(word, vowel_pos + 1, FALSE))

\* The while loop of the letter-structure split (lines 502-566).
StructureLoop(word, i, syllables) ==
  IF ~(i < Len(word)) THEN Split(syllables)
  ELSE IF SuffixAt(word, i)
  THEN Split((IF i > 0 THEN Append(syllables, Sub(word, 0, i)) ELSE syllables)
               \o <<SubFrom(word, i)>>)
  ELSE IF Ch(word, i) \in vowels THEN AtVowel(word, i, syllables, ScanTo(word, i + 1, TRUE))
  ELSE AtConsonant(word, i, syllables, ScanTo(word, i, TRUE))

\* The letter-structure split (lines 500-566).
StructureSplit(word) == StructureLoop(word, 0, <<>>)

\* Lines 609-617: the consonants from after_vowels up to the next group are
\* counted, and a run of more than one is halved.
HalveRun(after_vowels, run_end) ==
  IF run_end - after_vowels > 1 THEN after_vowels + FloorDiv(run_end - after_vowels, 2)
  ELSE after_vowels

\* Lines 600-617: the end of a group that is not the last one.
GroupEndFrom(word, next_group_start, after_vowels) ==
  HalveRun(after_vowels,
           Min(ScanTo(word, after_vowels, TRUE), Max(after_vowels, next_group_start)))

GroupEnd(word, vowel_positions, i, vowels_per_syllable) ==
  GroupEndFrom(word, Item(vowel_positions, i + vowels_per_syllable),
               ScanTo(word, Item(vowel_positions, i + vowels_per_syllable - 1) + 1, FALSE))

RECURSIVE EvenLoop(_, _, _, _, _)

\* Lines 619-625: the group is appended; the loop ends once there are n groups.
EvenNext(word, vowel_positions, vowels_per_syllable, n, i, grown) ==
  IF Len(grown) = n THEN grown
  ELSE EvenLoop(word, vowel_positions, vowels_per_syllable, n, <<i + vowels_per_syllable, grown>>)

\* The for loop of lines 595-625, at index st[1], with the pairs st[2] so far.
EvenLoop(word, vowel_positions, vowels_per_syllable, n, st) ==
  IF ~(st[1] < Len(vowel_positions)) THEN st[2]
  ELSE EvenNext(word, vowel_positions, vowels_per_syllable, n, st[1],
         Append(st[2],
           << IF st[2] = <<>> THEN 0 ELSE st[2][Len(st[2])][2],
              IF st[1] + vowels_per_syllable >= Len(vowel_positions) \/ Len(st[2]) = n - 1
              THEN Len(word)
              ELSE GroupEnd(word, vowel_positions, st[1], vowels_per_syllable) >>))

\* Lines 594-625: the (start, end) pairs of the vowel-group split.
EvenSyllables(word, vowel_positions, vowels_per_syllable, n) ==
  EvenLoop(word, vowel_positions, vowels_per_syllable, n, <<0, <<>>>>)

\* Lines 627-634: the pairs cut out of the word, the last one taking every
\* letter that is left.
CutEven(word, even_syllables) ==
  [k \in 1..Len(even_syllables) |->
     IF k = Len(even_syllables) /\ even_syllables[k][2] < Len(word)
     THEN Sub(word, even_syllables[k][1], even_syllables[k][2])
            \o SubFrom(word, even_syllables[k][2])
     ELSE Sub(word, even_syllables[k][1], even_syllables[k][2])]

\* UniformPieces without lines 647-648: the last piece is cut like the others.
UniformPiecesNoRest(word, n, per) ==
  [i \in 1..n |-> Sub(word, (i - 1) * per, i * per)]

\* Lines 636-648: the word cut into n pieces of per letters, the last piece taking
\* the rest.
UniformPieces(word, n, per) ==
  [i \in 1..n |-> IF i < n THEN Sub(word, (i - 1) * per, i * per)
                  ELSE SubFrom(word, (n - 1) * per)]

\* chars_per_syllable = len(word) // n, then the pieces.
UniformSplit(word, n) == UniformPieces(word, n, FloorDiv(Len(word), n))

\* Lines 636-651: the vowel-group split if it has n syllables, else the uniform one.
FinalChoose(word, syllable_phonemes, result_syllables) ==
  IF Len(result_syllables) # Len(syllable_phonemes)
  THEN Ok(syllable_phonemes, UniformSplit(word, Len(syllable_phonemes)))
  ELSE Ok(syllable_phonemes, result_syllables)

\* Lines 582-651: a word with no vowel letter is one syllable; else the vowel
\* letters are grouped.
FinalGroups(word, phonemes, syllable_phonemes, vowel_positions) ==
  IF vowel_positions = <<>> THEN Ok(<<phonemes>>, <<word>>)
  ELSE IF Len(syllable_phonemes) = 0 THEN Raise("ZeroDivisionError")
  ELSE FinalChoose(word, syllable_phonemes,
         CutEven(word,
           EvenSyllables(word, vowel_positions,
             Max(1, FloorDiv(Len(vowel_positions), Len(syllable_phonemes))),
             Len(syllable_phonemes))))

\* The last fallback (lines 579-651).
FinalSplit(word, phonemes, syllable_phonemes) ==
  FinalGroups(word, phonemes, syllable_phonemes,
              SelectSeq([k \in 1..Len(word) |-> k - 1], LAMBDA i : Ch(word, i) \in vowels))

\* Lines 568-651: the letter-structure split if its count matches, else the
\* hyphenator's if its count matches, else the last fallback.
AfterStructure(word, phonemes, syllable_phonemes, initial_syllables, structure) ==
  IF structure.hang THEN Hang
  ELSE IF Len(structure.syl) = Len(syllable_phonemes) THEN Ok(syllable_phonemes, structure.syl)
  ELSE IF Len(initial_syllables) = Len(syllable_phonemes)
  THEN Ok(syllable_phonemes, initial_syllables)
  ELSE FinalSplit(word, phonemes, syllable_phonemes)

\* Lines 485-651: the hyphenator's split if it has as many pieces as there are
\* phoneme groups, else the fallbacks.
HyphenatorOrFallback(word, phonemes, syllable_phonemes, initial_syllables) ==
  IF Len(syllable_phonemes) = Len(initial_syllables)
  THEN Ok(syllable_phonemes, initial_syllables)
  ELSE AfterStructure(word, phonemes, syllable_phonemes, initial_syllables,
                      StructureSplit(word))

\* Lines 417-651: what split_syllables does when no special structure was found.
GeneralSplit(hy, word, phonemes, cmu_phonemes, vowel_indices) ==
  HyphenatorOrFallback(word, phonemes, SyllablePhonemes(cmu_phonemes, vowel_indices),
                       Hyphenate(hy, word))

\* The stages in the order of the code: the first one that applies decides.
OrElse(first, second) == IF first.kind = "pass" THEN second ELSE first

\* Lines 209-651: the stages after the override table.
Heuristics(hy, word, phonemes, cmu_phonemes, vowel_indices) ==
  OrElse(ErBranch(hy, word, phonemes, cmu_phonemes, vowel_indices),
  OrElse(ExBranch(hy, word, phonemes),
  OrElse(TureBranch(hy, word, phonemes),
  OrElse(AffixBranch(hy, word, phonemes, vowel_indices),
         GeneralSplit(hy, word, phonemes, cmu_phonemes, vowel_indices)))))

\* SplitKnown without lines 173-190: the override table is never consulted.
SplitKnownNoOverride(dict, hy, word, phonemes) ==
  IF word \notin DOMAIN dict THEN NoneNone
  ELSE Heuristics(hy, word, phonemes, Item(dict[word], 0),
                  VowelIndices(Item(dict[word], 0)))

\* Lines 172-207: the override table is consulted first.
SplitKnown(dict, hy, word, phonemes) ==
  IF word \in DOMAIN forced_patterns THEN ForcedBranch(word, phonemes)
  ELSE IF word \notin DOMAIN dict THEN NoneNone
  ELSE Heuristics(hy, word, phonemes, Item(dict[word], 0),
                  VowelIndices(Item(dict[word], 0)))

\* Lines 94-96: no phonemes, no split.
SplitWith(dict, hy, word, got) ==
  IF ~Truthy(got) THEN NoneNone ELSE SplitKnown(dict, hy, word, got.v)

\* Lines 92-94: the word is lower-cased and its phonemes are looked up.
SplitLowered(dict, hy, word) == SplitWith(dict, hy, word, get_phonetic(dict, word))

split_syllables(dict, hy, word0) == SplitLowered(dict, hy, Lower(word0))

(***************************************************************************)
(* analyze_word, the handler of POST /analyze.  A request is given by what *)
(* request.get_json() makes of its body:                                   *)
(*   [json |-> "invalid"]   a body sent as application/json that is empty  *)
(*                          or is not JSON: get_json raises BadRequest     *)
(*   [json |-> "null"]      the JSON literal null: get_json returns None   *)
(*   [json |-> "object", has_word |-> b, word |-> v, others |-> n]         *)
(*                          an object with n keys besides "word"; v is     *)
(*                          [t |-> "null"] or [t |-> "str", s |-> string]  *)
(***************************************************************************)
JsonNull == [t |-> "null"]

JsonStr(s) == [t |-> "str", s |-> s]

InvalidBody == [json |-> "invalid"]

NullBody == [json |-> "null"]

Object(has_word, word, others) ==
  [json |-> "object", has_word |-> has_word, word |-> word, others |-> others]

WordRequest(s) == Object(TRUE, JsonStr(s), 0)

Error(status, message) == [status |-> status, body |-> [error |-> message]]

\* [{'text': s, 'phonetic': p} for s, p in zip(syllables, syllable_phonemes)]
Zip(syllables, syllable_phonemes) ==
  [k \in 1..Min(Len(syllables), Len(syllable_phonemes)) |->
     [text |-> syllables[k], phonetic |-> syllable_phonemes[k]]]

\* Respond without lines 671-672: a failed lookup is not told from a failed split.
RespondNoLookupCheck(word, phonemes, split) ==
  IF split.kind = "hang" THEN [status |-> 0, body |-> [error |-> "no response"]]
  ELSE IF split.kind = "raise" THEN Error(500, split.exc)
  ELSE IF split.kind = "none" \/ split.phon = <<>> \/ split.syl = <<>>
  THEN Error(400, "Failed to split syllables for word: " \o word)
  ELSE [status |-> 200,
        body |-> [word |-> word,
                  full_phonetic |-> phonemes.v,
                  syllables |-> Zip(split.syl, split.phon)]]

\* Lines 671-685: the response, from the phonemes and the outcome of the split.
Respond(word, phonemes, split) ==
  IF ~Truthy(phonemes) THEN Error(404, "No phonetic found for word: " \o word)
  ELSE IF split.kind = "hang" THEN [status |-> 0, body |-> [error |-> "no response"]]
  ELSE IF split.kind = "raise" THEN Error(500, split.exc)
  ELSE IF split.kind = "none" \/ split.phon = <<>> \/ split.syl = <<>>
  THEN Error(400, "Failed to split syllables for word: " \o word)
  ELSE [status |-> 200,
        body |-> [word |-> word,
                  full_phonetic |-> phonemes.v,
                  syllables |-> Zip(split.syl, split.phon)]]

\* The handler from the normalised word on (lines 666-685).
AnalyzeNormalized(dict, hy, word) ==
  IF word = "" THEN Error(400, "No word provided")
  ELSE Respond(word, get_phonetic(dict, word), split_syllables(dict, hy, word))

\* Normalize without .lower(): the word is only trimmed.
NormalizeNoLower(s) == Strip(s)

\* data.get('word', '').strip().lower()
Normalize(s) == Lower(Strip(s))

analyze_word(dict, hy, req) ==
  IF req.json = "invalid" THEN Error(500, "BadRequest")
  ELSE IF req.json = "null" \/ (~req.has_word /\ req.others = 0)
  THEN Error(400, "No data provided")
  ELSE IF ~req.has_word THEN Error(400, "No word provided")
  ELSE IF req.word.t # "str" THEN Error(500, "AttributeError")
  ELSE AnalyzeNormalized(dict, hy, Normalize(req.word.s))

(***************************************************************************)
(* The dictionaries and the requests of the model.                         *)
(***************************************************************************)
\* Entries of the CMU pronouncing dictionary (use has two pronunciations).
RealEntries ==
  [hunter   |-> << <<"HH", "AH1", "N", "T", "ER0">> >>,
   paper    |-> << <<"P", "EY1", "P", "ER0">> >>,
   agree    |-> << <<"AH0", "G", "R", "IY1">> >>,
   lecture  |-> << <<"L", "EH1", "K", "CH", "ER0">> >>,
   actually |-> << <<"AE1", "K", "CH", "AH0", "W", "AH0", "L", "IY0">> >>,
   nature   |-> << <<"N", "EY1", "CH", "ER0">> >>,
   doctor   |-> << <<"D", "AA1", "K", "T", "ER0">> >>,
   nation   |-> << <<"N", "EY1", "SH", "AH0", "N">> >>,
   example  |-> << <<"IH0", "G", "Z", "AE1", "M", "P", "AH0", "L">> >>,
   teacher  |-> << <<"T", "IY1", "CH", "ER0">> >>,
   under    |-> << <<"AH1", "N", "D", "ER0">> >>,
   about    |-> << <<"AH0", "B", "AW1", "T">> >>,
   one      |-> << <<"W", "AH1", "N">> >>,
   use      |-> << <<"Y", "UW1", "S">>, <<"Y", "UW1", "Z">> >>,
   cat      |-> << <<"K", "AE1", "T">> >>,
   banana   |-> << <<"B", "AH0", "N", "AE1", "N", "AH0">> >>,
   house    |-> << <<"HH", "AW1", "S">> >>,
   rhythm   |-> << <<"R", "IH1", "DH", "AH0", "M">> >>,
   mr       |-> << <<"M", "IH1", "S", "T", "ER0">> >>,
   fly      |-> << <<"F", "L", "AY1">> >>,
   undergo  |-> << <<"AH2", "N", "D", "ER0", "G", "OW1">> >>,
   pumpkin  |-> << <<"P", "AH1", "M", "P", "K", "AH0", "N">> >>,
   rely     |-> << <<"R", "IH0", "L", "AY1">> >>]

\* Entries made up to reach what the real ones above do not: a final ER written
\* without a stress digit (the only form the 'er' stage accepts), a word in
\* 'ture' with a single phoneme, and a word that begins with the vowel letter y
\* followed by three consonants.
MadeUpEntries ==
  [baker  |-> << <<"B", "EY1", "K", "ER">> >>,
   bature |-> << <<"ER0">> >>,
   ymbra  |-> << <<"IH1", "M", "B", "R", "AH0">> >>]

GenLetters == {"a", "b"}

GenPhonemes == {"AH1", "B"}

RECURSIVE GenWords(_)
\* The non-empty strings over GenLetters of at most n letters.
GenWords(n) ==
  IF n = 0 THEN {}
  ELSE GenLetters \cup GenWords(n - 1)
         \cup {w \o c : w \in GenWords(n - 1), c \in GenLetters}

RECURSIVE GenProns(_)
\* The pronunciations over GenPhonemes of at most n phonemes, the empty one too.
GenProns(n) ==
  IF n = 0 THEN {<<>>}
  ELSE GenProns(n - 1) \cup {Append(p, x) : p \in GenProns(n - 1), x \in GenPhonemes}

\* Every installed dictionary holds hunter and one more entry.
CoreEntries == [hunter |-> RealEntries["hunter"]]

Corpora ==
  {(w :> RealEntries[w]) @@ CoreEntries : w \in DOMAIN RealEntries}
    \cup {(w :> MadeUpEntries[w]) @@ CoreEntries : w \in DOMAIN MadeUpEntries}
    \cup {(w :> <<p>>) @@ CoreEntries : w \in GenWords(MaxWordLen), p \in GenProns(MaxPronLen)}

\* A word as a caller may type it: first letter in upper case, blanks around it.
UpperCh(c) ==
  IF \E k \in 1..26 : LowerLetters[k] = c
  THEN UpperLetters[CHOOSE k \in 1..26 : LowerLetters[k] = c]
  ELSE c

Typed(w) == " " \o UpperCh(Ch(w, 0)) \o SubFrom(w, 1) \o " "

\* The requests posted against a dictionary: every word of it as it is and as
\* typed, two words it may lack (agree is in the override table), and the
\* requests that carry no usable word.
Requests(dict) ==
  {WordRequest(w) : w \in DOMAIN dict \cup {"zzz", "agree"}}
    \cup {WordRequest(Typed(w)) : w \in DOMAIN dict \ DOMAIN CoreEntries}
    \cup {WordRequest(""), WordRequest("  "), InvalidBody, NullBody,
          Object(FALSE, JsonNull, 0), Object(FALSE, JsonNull, 1),
          Object(TRUE, JsonNull, 0)}

NoRequest == [json |-> "none"]

NoResponse == [status |-> -1]

NotReturned == [returned |-> FALSE]

(***************************************************************************)
(* The state machine.                                                      *)
(***************************************************************************)
TypeOK ==
  /\ corpus \in Corpora
  /\ dic \in Hyphenators

\* Process start: the dictionary is loaded (lines 27-32), the hyphenator is
\* built (line 35); nothing is in flight.
Init ==
  /\ corpus \in Corpora
  /\ d = corpus
  /\ dic \in Hyphenators
  /\ request = NoRequest
  /\ response = NoResponse
  /\ result = NotReturned

\* A client posts a request (api_client.analyze_word, line 29).  What its last
\* call returned stays with the client.
Post(req) ==
  /\ request = NoRequest
  /\ request' = req
  /\ response' = NoResponse
  /\ UNCHANGED <<corpus, d, dic, result>>

\* AnalyzeWord with a handler that writes a word the dictionary lacks back into
\* it, as an entry with no pronunciation.
AnalyzeWordRemembering ==
  /\ request # NoRequest
  /\ response = NoResponse
  /\ response' = analyze_word(d, dic, request)
  /\ d' = IF /\ request.json = "object" /\ request.has_word /\ request.word.t = "str"
             /\ Normalize(request.word.s) \notin DOMAIN d
          THEN (Normalize(request.word.s) :> << <<>> >>) @@ d
          ELSE d
  /\ UNCHANGED <<corpus, dic, request, result>>

\* The handler runs on the request in flight.  It reads d and dic and writes
\* neither: every table it uses is a local of the call.
AnalyzeWord ==
  /\ request # NoRequest
  /\ response = NoResponse
  /\ response' = analyze_word(d, dic, request)
  /\ UNCHANGED <<corpus, d, dic, request, result>>

\* The client's analyze_word returns (lines 30-34): the JSON body, or None when
\* raise_for_status() raised.
ClientReturn ==
  /\ response # NoResponse
  /\ result' = [returned |-> TRUE,
                value |-> IF response.status = 200 THEN Some(response.body) ELSE None]
  /\ request' = NoRequest
  /\ response' = NoResponse
  /\ UNCHANGED <<corpus, d, dic>>

Next ==
  \/ \E req \in Requests(d) : Post(req)
  \/ AnalyzeWord
  \/ ClientReturn

Spec == Init /\ [][Next]_vars

\* The server alone answering one request: what split_syllables and
\* get_phonetic make of a word does not depend on what the client keeps.
ServerNext ==
  \/ \E req \in Requests(d) : Post(req)
  \/ AnalyzeWord

ServerSpec == Init /\ [][ServerNext]_vars

(***************************************************************************)
(* What a state shows of the request in flight and of its response.        *)
(***************************************************************************)
Answered == response # NoResponse

Succeeded == Answered /\ response.status = 200

\* The request carries a string under "word".
HasStringWord ==
  request.json = "object" /\ request.has_word /\ request.word.t = "str"

\* The word of the request, trimmed and in lower case.
AskedWord == Lower(Strip(request.word.s))

\* The request names a word of the loaded dictionary.
AskedKnownWord == HasStringWord /\ AskedWord \in DOMAIN d

SyllableTexts ==
  [k \in DOMAIN response.body.syllables |-> response.body.syllables[k].text]

SyllableGroups ==
  [k \in DOMAIN response.body.syllables |-> response.body.syllables[k].phonetic]

HasVowelLetter(w) == \E i \in 0..(Len(w) - 1) : Ch(w, i) \in vowels

(***************************************************************************)
(* C1.  For every word with a dictionary entry, the texts of the syllables *)
(* of a success response, joined in order, are the normalized word, in     *)
(* whichever stage of split_syllables the split was made.                  *)
(***************************************************************************)
C1_TextsSpellTheWord ==
  (Succeeded /\ AskedKnownWord) => Join(SyllableTexts) = AskedWord

\* A word outside the override table was split into three syllables or more.
C1_Witness ==
  /\ Succeeded
  /\ AskedKnownWord
  /\ AskedWord \notin DOMAIN forced_patterns
  /\ Len(SyllableTexts) >= 3

(***************************************************************************)
(* C2.  In every success response the phoneme groups of the syllables,     *)
(* concatenated in syllable order, are the full_phonetic sequence of the   *)
(* response: nothing dropped, duplicated, reordered or replaced.           *)
(***************************************************************************)
C2_GroupsMakeFullPhonetic ==
  Succeeded => Concat(SyllableGroups) = response.body.full_phonetic

(***************************************************************************)
(* C3.  For every word of the override table that has a dictionary entry,  *)
(* the syllable texts of the result are the registered list, in its order: *)
(* no later stage of split_syllables alters them.                          *)
(***************************************************************************)
C3_OverrideDecides ==
  (Succeeded /\ AskedKnownWord /\ AskedWord \in DOMAIN forced_patterns)
    => SyllableTexts = forced_patterns[AskedWord]

\* hunter, which the affix stage would cut before its suffix 'er', was answered.
C3_Witness ==
  /\ Succeeded
  /\ HasStringWord
  /\ AskedWord = "hunter"
  /\ SyllableTexts = <<"hun", "ter">>

(***************************************************************************)
(* C4.  A request whose normalized word is not empty and has no dictionary *)
(* entry is answered 404 with an error body, never with syllables, also    *)
(* when the word is in the override table.                                 *)
(***************************************************************************)
C4_UnknownWordIsNotFound ==
  (Answered /\ HasStringWord /\ AskedWord # "" /\ AskedWord \notin DOMAIN d)
    => /\ response.status = 404
       /\ DOMAIN response.body = {"error"}

\* agree, a word of the override table, was asked of a dictionary that lacks it.
C4_Witness ==
  /\ Answered
  /\ HasStringWord
  /\ AskedWord = "agree"
  /\ "agree" \in DOMAIN forced_patterns
  /\ "agree" \notin DOMAIN d
  /\ response.status = 404

(***************************************************************************)
(* C5.  A request with no word (no body, no "word" key, a null "word") or  *)
(* with a word that is empty once trimmed is answered 400 with an error    *)
(* body, never 500 and never a success.                                    *)
(***************************************************************************)
WordMissingOrEmpty ==
  \/ request.json \in {"invalid", "null"}
  \/ request.json = "object" /\ ~request.has_word
  \/ request.json = "object" /\ request.has_word /\ request.word.t = "null"
  \/ HasStringWord /\ Strip(request.word.s) = ""

C5_MissingWordIsInvalidInput ==
  (Answered /\ WordMissingOrEmpty)
    => /\ response.status = 400
       /\ DOMAIN response.body = {"error"}

(***************************************************************************)
(* C6.  A word whose dictionary entry has a non-empty first pronunciation  *)
(* is answered with a success that has at least one syllable: no stage of  *)
(* split_syllables raises, stalls or returns an empty list for it.         *)
(***************************************************************************)
C6_KnownWordSucceeds ==
  (Answered /\ AskedKnownWord /\ Item(d[AskedWord], 0) # <<>>)
    => /\ response.status = 200
       /\ Len(response.body.syllables) >= 1

\* A word pronounced without any vowel phoneme, which leaves the stages nothing
\* to count syllables by, was answered.
C6_Witness ==
  /\ Succeeded
  /\ AskedKnownWord
  /\ Item(d[AskedWord], 0) # <<>>
  /\ VowelIndices(Item(d[AskedWord], 0)) = <<>>
  /\ HasVowelLetter(AskedWord)

(***************************************************************************)
(* C7.  Analysis keeps no state between requests: whatever was asked       *)
(* before, the dictionary is the one that was loaded, and the response to  *)
(* a request is the one it gets as the first request of the process.       *)
(***************************************************************************)
C7_NoCrossRequestState ==
  /\ d = corpus
  /\ Answered => response = analyze_word(corpus, dic, request)

\* A request was answered with a success after an earlier call had returned
\* without one.
C7_Witness ==
  /\ result # NotReturned
  /\ result.value = None
  /\ Succeeded

(***************************************************************************)
(* C8.  Case and surrounding whitespace of the word do not matter: a raw   *)
(* word gets the response of its lower-case trimmed form, and the word     *)
(* field of a success is that form.                                        *)
(***************************************************************************)
C8_CaseAndBlanksIgnored ==
  (Answered /\ HasStringWord)
    => /\ response = analyze_word(d, dic, WordRequest(AskedWord))
       /\ response.status = 200 => response.body.word = AskedWord

\* A word typed with a capital and blanks around it was answered with a success.
C8_Witness ==
  /\ Succeeded
  /\ HasStringWord
  /\ request.word.s # AskedWord
  /\ Strip(request.word.s) # request.word.s
  /\ Lower(request.word.s) # request.word.s

C10_NaturalReadingPresent ==
  Succeeded
    => /\ "natural_reading" \in DOMAIN response.body
       /\ Join([k \in DOMAIN response.body.natural_reading |->
                  response.body.natural_reading[k].text]) = response.body.word

(***************************************************************************)
(* C11.  full_phonetic has one element for each phoneme of the first       *)
(* pronunciation of the word, in its order, and no element of it holds an  *)
(* uppercase letter or a digit: a symbol that the table lacks comes out in *)
(* lower case.                                                             *)
(***************************************************************************)
HasUpperOrDigit(s) ==
  \E i \in 0..(Len(s) - 1) :
    \/ Ch(s, i) \in Digits
    \/ \E k \in 1..26 : UpperLetters[k] = Ch(s, i)

C11_MappedPhonemesAreLowercase ==
  (Succeeded /\ AskedKnownWord)
    => /\ Len(response.body.full_phonetic) = Len(Item(d[AskedWord], 0))
       /\ \A k \in DOMAIN response.body.full_phonetic :
            ~HasUpperOrDigit(response.body.full_phonetic[k])

(***************************************************************************)
(* C12.  Every syllable text of a dictionary word that has a vowel letter  *)
(* is non-empty and holds a vowel letter itself, the residue of the affix  *)
(* stage and the pieces of the uniform split included.                     *)
(***************************************************************************)
C12_EverySyllableHasAVowelLetter ==
  (Succeeded /\ AskedKnownWord /\ HasVowelLetter(AskedWord))
    => \A k \in DOMAIN response.body.syllables :
         /\ response.body.syllables[k].text # ""
         /\ HasVowelLetter(response.body.syllables[k].text)

(***************************************************************************)
(* What the stages of split_syllables make of the word of the request.     *)
(***************************************************************************)
\* The first pronunciation of the word.
AskedPron == Item(d[AskedWord], 0)

\* The word is not in the override table and none of the 'er', 'ex' and 'ture'
\* stages takes it: the affix stage is reached.
AffixStageReached ==
  /\ AskedWord \notin DOMAIN forced_patterns
  /\ ErBranch(dic, AskedWord, MapPhonemes(AskedPron), AskedPron,
              VowelIndices(AskedPron)).kind = "pass"
  /\ ExBranch(dic, AskedWord, MapPhonemes(AskedPron)).kind = "pass"
  /\ TureBranch(dic, AskedWord, MapPhonemes(AskedPron)).kind = "pass"

\* The length of the suffix the affix stage peels off, 0 if it finds none.
AskedSuffixLen ==
  IF FindSuffix(AskedWord).some THEN Len(FindSuffix(AskedWord).v.pat) ELSE 0

\* The prefix the affix stage works with.
AskedPrefix ==
  PrefixAfterSuffix(AskedWord, MapPhonemes(AskedPron), VowelIndices(AskedPron),
                    FindSuffix(AskedWord))

\* The affix stage took a prefix of the table: the single vowel letters it
\* takes otherwise are shorter than any pattern of the table.
TablePrefixTaken ==
  /\ Succeeded
  /\ AskedKnownWord
  /\ AffixStageReached
  /\ AskedPrefix.found
  /\ Len(AskedPrefix.prefix) >= 2

\* A pattern of common_prefixes that starts the word and leaves at least one
\* letter before the peeled suffix.
FitsBeforeSuffix(pat) ==
  /\ StartsWith(AskedWord, pat)
  /\ Len(pat) + AskedSuffixLen < Len(AskedWord)

\* The prefix the stage works with is of the table only if it fits, it is then
\* the leading syllable, and one of the table is taken whenever one fits.
TakenOnlyIfItFits(prefix) ==
  /\ (prefix.found /\ Len(prefix.prefix) >= 2)
       => /\ \E k \in 1..Len(common_prefixes) : common_prefixes[k].pat = prefix.prefix
          /\ FitsBeforeSuffix(prefix.prefix)
          /\ SyllableTexts[1] = prefix.prefix
  /\ (\E k \in 1..Len(common_prefixes) : FitsBeforeSuffix(common_prefixes[k].pat))
       => (prefix.found /\ Len(prefix.prefix) >= 2)

(***************************************************************************)
(* C13, as claimed.  A prefix of the table becomes the leading syllable    *)
(* only if it lies before the peeled suffix and what remains of the word   *)
(* after the prefix is at least half the word.                             *)
(***************************************************************************)
C13_PrefixLeavesHalfTheWord ==
  TablePrefixTaken
    => /\ FitsBeforeSuffix(AskedPrefix.prefix)
       /\ 2 * (Len(AskedWord) - Len(AskedPrefix.prefix)) >= Len(AskedWord)

(***************************************************************************)
(* C13, amended.  A prefix of the table becomes the leading syllable only  *)
(* if it lies before the peeled suffix and leaves at least one letter      *)
(* between itself and that suffix; a prefix that fits so is split off      *)
(* however little of the word it leaves.                                   *)
(***************************************************************************)
C13_PrefixLeavesALetter ==
  (Succeeded /\ AskedKnownWord /\ AffixStageReached)
    => TakenOnlyIfItFits(AskedPrefix)

\* undergo was answered as under, go: the prefix left two letters of seven.
C13_Witness ==
  /\ TablePrefixTaken
  /\ AskedWord = "undergo"
  /\ SyllableTexts = <<"under", "go">>
  /\ 2 * (Len(AskedWord) - Len(AskedPrefix.prefix)) < Len(AskedWord)

(***************************************************************************)
(* The stages after the affix stage, for the word of the request.          *)
(***************************************************************************)
\* No special structure was found: the result comes from lines 417-651.
GeneralStageReached ==
  /\ AffixStageReached
  /\ AffixBranch(dic, AskedWord, MapPhonemes(AskedPron), VowelIndices(AskedPron)).kind = "pass"

\* The places of the vowel phonemes and of the vowel letters, 0-based.
AskedVowelPhonemes == VowelIndices(AskedPron)

AskedVowelLetters ==
  SelectSeq([k \in 1..Len(AskedWord) |-> k - 1], LAMBDA i : Ch(AskedWord, i) \in vowels)

\* The number of phoneme groups the general stage forms.
AskedGroupCount == Len(SyllablePhonemes(AskedPron, AskedVowelPhonemes))

\* The response carries the groups by vowel nucleus.
GroupsByNucleus ==
  Succeeded /\ AskedKnownWord /\ GeneralStageReached /\ HasVowelLetter(AskedWord)

\* The consonants between the i-th and the next of a list of vowel places.
RunBetween(places, i) == places[i + 1] - places[i] - 1

\* The first i of a list of pieces end where the run after the i-th vowel place
\* has given left consonants to the piece before it.
CutsRunAt(pieces, places, i, left) ==
  SumLen(SubSeq(pieces, 1, i)) = places[i] + 1 + left

\* Each run of two consonants or more after one of the first upto vowel places
\* gives the piece before it half of its consonants, the odd one too if extra
\* is 1 and not if it is 0.
RunsBisected(pieces, places, upto, extra) ==
  \A i \in 1..upto :
    (i < Len(places) /\ RunBetween(places, i) >= 2)
      => CutsRunAt(pieces, places, i, (RunBetween(places, i) + extra) \div 2)

\* The word begins with one vowel letter, a run of consonants and a vowel.
LeadingRun == ScanTo(AskedWord, 1, TRUE) - 1

BeginsWithVowelAndRun ==
  /\ Ch(AskedWord, 0) \in vowels
  /\ ScanTo(AskedWord, 1, TRUE) < Len(AskedWord)
  /\ LeadingRun >= 2

\* With n groups, hyphens pieces from the hyphenator and structure pieces from
\* the letter-structure split, the response carries the letter-structure split
\* (lines 500-571).
StructureSplitIsReturned(n, hyphens, structure) == hyphens # n /\ structure = n

\* The response carries the vowel-group split of the last fallback (lines
\* 589-634), formed with one vowel letter to a syllable.
VowelGroupSplitIsReturned(letters, n, hyphens, structure) ==
  /\ hyphens # n
  /\ structure # n
  /\ FloorDiv(Len(letters), n) <= 1
  /\ Len(CutEven(AskedWord, EvenSyllables(AskedWord, letters, 1, n))) = n

StructureSplitReturned ==
  /\ GroupsByNucleus
  /\ StructureSplitIsReturned(AskedGroupCount, Len(Hyphenate(dic, AskedWord)),
                              Len(StructureSplit(AskedWord).syl))

VowelGroupSplitReturned ==
  /\ GroupsByNucleus
  /\ VowelGroupSplitIsReturned(AskedVowelLetters, AskedGroupCount,
                               Len(Hyphenate(dic, AskedWord)),
                               Len(StructureSplit(AskedWord).syl))

\* The runs are bisected in the groups, in the letter-structure split where its
\* scan stands on the vowel before the run, and in the vowel-group split.
BisectedEverywhere(phonemes, letters, n, hyphens, structure, extra) ==
  /\ RunsBisected(SyllableGroups, phonemes, Len(phonemes) - 1, extra)
  /\ (StructureSplitIsReturned(n, hyphens, structure) /\ BeginsWithVowelAndRun)
       => Len(SyllableTexts[1]) = 1 + (LeadingRun + extra) \div 2
  /\ VowelGroupSplitIsReturned(letters, n, hyphens, structure)
       => RunsBisected(SyllableTexts, letters, n - 1, extra)

BisectedWith(extra) ==
  GroupsByNucleus
    => BisectedEverywhere(AskedVowelPhonemes, AskedVowelLetters, AskedGroupCount,
                          Len(Hyphenate(dic, AskedWord)),
                          Len(StructureSplit(AskedWord).syl), extra)

(***************************************************************************)
(* C14, as claimed.  A run of k >= 2 consonants between two consecutive    *)
(* vowels is bisected with the remainder to the left: the syllable before  *)
(* gets ceil(k/2) of them and the syllable after floor(k/2), in the        *)
(* phoneme groups and in the letter-level splits.                          *)
(***************************************************************************)
C14_RemainderGoesLeft == BisectedWith(1)

(***************************************************************************)
(* C14, amended.  The run is bisected with the remainder to the right: the *)
(* syllable before gets floor(k/2) of the consonants and the syllable      *)
(* after ceil(k/2), in the phoneme groups, in the letter-structure split   *)
(* where its scan stands on the vowel before the run, and in the           *)
(* vowel-group split of the last fallback.                                 *)
(***************************************************************************)
C14_RemainderGoesRight == BisectedWith(0)

\* pumpkin was answered by the last fallback: of the three consonants between
\* its vowels one went left and two right, phonemes and letters alike.
C14_Witness ==
  /\ VowelGroupSplitReturned
  /\ AskedWord = "pumpkin"
  /\ RunBetween(AskedVowelPhonemes, 1) = 3
  /\ RunBetween(AskedVowelLetters, 1) = 3
  /\ SyllableTexts = <<"pum", "pkin">>
  /\ Len(SyllableGroups[1]) = 3

(***************************************************************************)
(* C15.  Whenever split_syllables returns a pair of lists, the list of     *)
(* syllable texts and the list of phoneme groups have the same length, so  *)
(* the zip of analyze_word drops no syllable and no group: the response    *)
(* carries them all.                                                       *)
(***************************************************************************)
PairsEveryItem(split) ==
  split.kind = "ok"
    => /\ Len(split.syl) = Len(split.phon)
       /\ Succeeded => /\ SyllableTexts = split.syl
                       /\ SyllableGroups = split.phon

C15_ListsHaveEqualLength ==
  (Answered /\ HasStringWord /\ AskedWord # "")
    => PairsEveryItem(split_syllables(d, dic, AskedWord))

\* example was answered by the 'ex' stage, with a syllable after ex.
C15_Witness ==
  /\ Succeeded
  /\ AskedKnownWord
  /\ AskedWord = "example"
  /\ ExBranch(dic, AskedWord, MapPhonemes(AskedPron)).kind = "ok"
  /\ Len(SyllableTexts) >= 2
  /\ Len(SyllableTexts) = Len(split_syllables(d, dic, AskedWord).phon)

=============================================================================
